---- MODULE Spec2Model ----
(***************************************************************************)
(* Tournament lifecycle and image/record mutation ordering of the Aspire   *)
(* Chess Academy backend (routes/tournaments.js, models/Tournament.js,     *)
(* config/cloudinary.js).                                                  *)
(*                                                                         *)
(* Strings the code inspects (URLs, public ids, winner names) are          *)
(* sequences of tokens; a token stands for a non-empty run of characters   *)
(* containing neither "/" nor "." nor white space.  null and the absent    *)
(* request field are the empty sequence, a present value v is <<v>>.       *)
(***************************************************************************)
EXTENDS Integers, Sequences, FiniteSets, TLC

\* ---------------------------------------------------------------- bounds
TicksPerDay == 2        \* clock instants per calendar day
MaxMax == 2             \* largest maxParticipants a request carries
MaxCount == 2           \* largest participant count a request carries
NumIds == 2             \* tournament ids of the image specification
NumLifeIds == 1         \* tournaments of the lifecycle specifications
MaxLimit == 1           \* largest limit a past-list request asks for
MaxUploads == 3         \* image uploads in one behaviour
MaxInflight == 2        \* requests in flight at once
MaxStudents == 2        \* students in one behaviour
MaxFiles == 3           \* student image uploads in one behaviour

MaxTime == 3 * TicksPerDay - 1
Times == 0..MaxTime
DayOne == TicksPerDay..(2 * TicksPerDay - 1)

\* ------------------------------------------------------ program constants
MinMaxParticipants == 1
MaxMaxParticipants == 1000
PastLimitDefault == 6   \* const { limit = 6 } = req.query
EnrollWindowDays == 30 \* 30 * 24 * 60 * 60 * 1000 ms
AdminLimitDefault == 10 \* limit = 10 of the admin list
AdminPageDefault == 1   \* page = 1 of the admin list
MinCurrentParticipants == 0

None == <<>>
Some(v) == <<v>>
IsSome(o) == o # <<>>
Val(o) == o[1]

Statuses == {"upcoming", "ongoing", "completed", "cancelled"}
\* the enum of category, in the schema and in tournamentValidation
Categories ==
    {"Open Tournament", "Youth (Under 18)", "Online Blitz", "Rapid", "Classical",
     "Blitz"}

\* ------------------------------------------------------------ calendar
\* Date.prototype.toDateString: the calendar day of an instant
DayOf(t) == t \div TicksPerDay

\* the status updateStatus assigns
ComputedStatus(now, date) ==
    IF now > date THEN "completed"
    ELSE IF DayOf(now) = DayOf(date) THEN "ongoing"
    ELSE "upcoming"

\* ------------------------------------------------------------- strings
SP == " "
RECURSIVE TrimLeft(_)
TrimLeft(s) == IF s # <<>> /\ Head(s) = SP THEN TrimLeft(Tail(s)) ELSE s
RECURSIVE TrimRight(_)
TrimRight(s) ==
    IF s # <<>> /\ s[Len(s)] = SP THEN TrimRight(SubSeq(s, 1, Len(s) - 1)) ELSE s
\* a mutant of trim: only leading white space is removed
TrimStartOnly(s) == TrimLeft(s)

\* String.prototype.trim
Trim(s) == TrimRight(TrimLeft(s))

\* ---------------------------------------------------------- cloudinary
SLASH == "/"
DOT == "."
ROOT == "aspire-chess-academy"
UrlPrefix == <<"https:", SLASH, SLASH, "res", DOT, "cloudinary", DOT, "com",
               SLASH, "cloud", SLASH, "image", SLASH, "upload", SLASH, "v1">>

\* `poster-${uniqueSuffix}`
PosterName(n) == "poster-" \o ToString(n)

\* the public id cloudinary gives an upload: folder option / public_id option
UploadedPublicId(folder, publicId) == <<ROOT, SLASH, folder, SLASH, publicId>>
\* the secure_url of an upload stored with format 'jpg'
SecureUrl(pid) == UrlPrefix \o <<SLASH>> \o pid \o <<DOT, "jpg">>
\* the result uploadToCloudinary resolves to
UploadResult(folder, publicId) ==
    [public_id |-> UploadedPublicId(folder, publicId),
     secure_url |-> SecureUrl(UploadedPublicId(folder, publicId))]

NoSlash(s) == \A k \in 1..Len(s) : s[k] # SLASH
NoDot(s) == \A k \in 1..Len(s) : s[k] # DOT
Suffix(s, k) == SubSeq(s, k, Len(s))

\* (?:\.[^.]+)?$ matches the rest r of the string
OptExtThenEnd(r) ==
    \/ r = <<>>
    \/ Len(r) >= 2 /\ r[1] = DOT /\ NoDot(Suffix(r, 2))

\* the ends e of group 1 when \/aspire-chess-academy\/ matches at i:
\* s[i+3..m-1] is the first [^\/]+, s[m] the slash, s[m+1..e] the second
GroupEnds(s, i) ==
    {e \in (i + 5)..Len(s) :
        \E m \in (i + 4)..(e - 1) :
            /\ s[m] = SLASH
            /\ NoSlash(SubSeq(s, i + 3, m - 1))
            /\ NoSlash(SubSeq(s, m + 1, e))
            /\ OptExtThenEnd(Suffix(s, e + 1))}

MatchStarts(s) ==
    {i \in 1..Len(s) :
        /\ i + 2 <= Len(s)
        /\ s[i] = SLASH /\ s[i + 1] = ROOT /\ s[i + 2] = SLASH
        /\ GroupEnds(s, i) # {}}

Min(S) == CHOOSE x \in S : \A y \in S : x <= y
Max(S) == CHOOSE x \in S : \A y \in S : x >= y

\* extractPublicId: the leftmost match, the second [^\/]+ greedy
ExtractPublicId(url) ==
    IF url = <<>> \/ MatchStarts(url) = {} THEN <<>>
    ELSE LET i == Min(MatchStarts(url))
             e == Max(GroupEnds(url, i))
         IN <<ROOT, SLASH>> \o SubSeq(url, i + 3, e)

\* ----------------------------------------------------------------- state
VARIABLES
    tournaments,    \* the Tournament collection: id -> document
    blobs,          \* public ids of the images cloudinary holds
    nextSuffix,     \* the next uniqueSuffix of a poster upload
    now,            \* the wall clock, new Date()
    resp,           \* the request handled last at this instant and its answer
    inflight,       \* the handlers suspended at an await: slot -> their locals
    enrollments,    \* the Enrollment collection: id -> document
    students,       \* the Student collection: id -> document
    files           \* uploads/students: files[k] iff the k-th upload is on disk

vars == <<tournaments, blobs, nextSuffix, now, resp,
          inflight, enrollments, students, files>>
\* what the tournament routes that run to their answer in one step leave alone
aside == <<inflight, enrollments, students, files>>
\* what the enrollment and student routes leave alone
tournamentVars == <<tournaments, blobs, nextSuffix>>

Ids == 1..NumIds
\* the requests the server is handling at once
Slots == 1..MaxInflight

\* cloudinary.uploader.destroy: an unknown public id is answered 'not found'
Destroy(bs, pid) == bs \ {pid}

\* what a request leaves in resp; status 0: the handler sent no response
NoResp ==
    [op |-> "none", id |-> 0, status |-> 0, message |-> "", data |-> <<>>,
     at |-> 0, error |-> "none", uploaded |-> <<>>, old |-> <<>>,
     oldPublicId |-> <<>>, cleanup |-> "none", req |-> <<>>, total |-> 0]

Answer(op, id, status, message, data) ==
    [NoResp EXCEPT !.op = op, !.id = id, !.status = status,
                   !.message = message, !.data = data, !.at = now]

\* the answer to a request whose inputs a property refers to
AnswerTo(req, op, id, status, message, data) ==
    [Answer(op, id, status, message, data) EXCEPT !.req = <<req>>]
Req == resp.req[1]

\* a document as a response carries it
Returned(id, doc) == [id |-> id, doc |-> doc]

\* registrationLink match: /^https?:\/\/.+/
LinkMatches(link) ==
    /\ Len(link) >= 4
    /\ link[1] \in {"http:", "https:"}
    /\ link[2] = SLASH /\ link[3] = SLASH

\* the schema validators save() runs on the modelled fields; the others hold
\* of every body that passed tournamentValidation
SchemaValid(doc) == LinkMatches(doc.registrationLink)

\* the document new Tournament(tournamentData) builds: schema defaults
\* under the fields of the request body
NewDoc(body, posterImage) ==
    [date |-> body.date,
     listUntil |-> body.listUntil,
     registrationLink |-> body.registrationLink,
     category |-> body.category,
     maxParticipants |-> body.maxParticipants,
     currentParticipants |->
        IF IsSome(body.currentParticipants) THEN Val(body.currentParticipants) ELSE 0,
     status |-> IF IsSome(body.status) THEN Val(body.status) ELSE "upcoming",
     isActive |-> TRUE,
     winner |-> None,
     finalParticipants |-> None,
     posterImage |-> posterImage,
     updatedAt |-> now]

\* timestamps: true: save() of a document with a modified path sets
\* updatedAt to the clock; a save that changes nothing leaves it
Stamp(old, doc) == IF doc = old THEN doc ELSE [doc EXCEPT !.updatedAt = now]

\* Object.assign(tournament, updateData)
Assign(doc, body, posterImage) ==
    [doc EXCEPT
       !.date = body.date,
       !.listUntil = body.listUntil,
       !.registrationLink = body.registrationLink,
       !.category = body.category,
       !.maxParticipants = body.maxParticipants,
       !.currentParticipants =
          IF IsSome(body.currentParticipants) THEN Val(body.currentParticipants) ELSE @,
       !.status = IF IsSome(body.status) THEN Val(body.status) ELSE @,
       !.posterImage = IF IsSome(posterImage) THEN posterImage ELSE @]

\* tournamentValidation: the express-validator rules on the modelled fields
BodyValid(body) ==
    /\ body.maxParticipants >= MinMaxParticipants
    /\ body.maxParticipants <= MaxMaxParticipants
    /\ IsSome(body.currentParticipants) =>
          Val(body.currentParticipants) >= MinCurrentParticipants
    /\ body.registrationLink # <<>>
    /\ body.category \in Categories

\* the error a rejected save() throws: a mongoose ValidationError when a
\* schema validator fails, else the failure of the write
SaveError(doc) == IF SchemaValid(doc) THEN "save" ELSE "validation"

\* the id the record store gives a new document
FreshId == Min(Ids \ DOMAIN tournaments)

Put(id, doc) == [i \in DOMAIN tournaments \cup {id} |->
                    IF i = id THEN doc ELSE tournaments[i]]

\* a mutant of the upload's catch block: the handler goes on after a failed
\* upload
UploadFailedIgnored(hasFile, uploadOk) == FALSE

\* catch (uploadError) { return res.status(500)... }: the request carries a
\* file and uploadToCloudinary rejected
UploadFailed(hasFile, uploadOk) == hasFile /\ ~uploadOk

\* ----------------------------------------------------- POST /api/tournaments
\* a mutant of the catch block: the uploaded poster is left behind
CreateCleanupSkipped(bs, publicId, destroyOk) == bs

\* the catch block: try { await deleteFromCloudinary(cloudinaryResult.public_id) }
\* catch (cleanupError) { log }
CreateCleanup(bs, publicId, destroyOk) ==
    IF destroyOk THEN Destroy(bs, publicId) ELSE bs

Create(body, hasFile, uploadOk, saveOk, destroyOk) ==
    /\ Ids \ DOMAIN tournaments # {}
    /\ hasFile => nextSuffix <= MaxUploads
    /\ UNCHANGED <<now, aside>>
    /\ IF ~BodyValid(body)
       THEN /\ resp' = Answer("create", 0, 400, "Validation failed", <<>>)
            /\ UNCHANGED <<tournaments, blobs, nextSuffix>>
       ELSE IF UploadFailed(hasFile, uploadOk)
       THEN /\ resp' = [Answer("create", 0, 500,
                               "Failed to upload poster to cloud storage", <<>>)
                          EXCEPT !.error = "upload"]
            /\ nextSuffix' = nextSuffix + 1
            /\ UNCHANGED <<tournaments, blobs>>
       ELSE LET cloudinaryResult == UploadResult("posters", PosterName(nextSuffix))
                posterImage == IF hasFile THEN cloudinaryResult.secure_url ELSE None
                uploaded == IF hasFile THEN cloudinaryResult.public_id ELSE <<>>
                tournament == NewDoc(body, posterImage)
            IN /\ nextSuffix' = IF hasFile THEN nextSuffix + 1 ELSE nextSuffix
               /\ IF saveOk /\ SchemaValid(tournament)
                  THEN /\ tournaments' = Put(FreshId, tournament)
                       /\ blobs' = IF hasFile /\ uploadOk
                                   THEN blobs \cup {uploaded} ELSE blobs
                       /\ resp' = [Answer("create", FreshId, 201,
                                          "Tournament created successfully",
                                          <<Returned(FreshId, tournament)>>)
                                     EXCEPT !.uploaded = uploaded]
                  ELSE /\ UNCHANGED tournaments
                       /\ blobs' = IF hasFile
                                   THEN CreateCleanup(blobs \cup {uploaded},
                                                      uploaded, destroyOk)
                                   ELSE blobs
                       /\ resp' = [Answer("create", 0, 500,
                                          "Server error while creating tournament",
                                          <<>>)
                                     EXCEPT !.error = SaveError(tournament),
                                            !.uploaded = uploaded,
                                            !.cleanup =
                                               IF ~hasFile THEN "none"
                                               ELSE IF destroyOk THEN "ok"
                                               ELSE "failed"]

\* -------------------------------------------------- PUT /api/tournaments/:id
\* a mutant of the update: the clean-up after a successful save destroys
\* cloudinaryResult.public_id in place of oldImagePublicId
UpdateCleanupTarget_New(oldImagePublicId, cloudinaryResult) ==
    cloudinaryResult.public_id

\* a mutant of the catch block: the new poster is left behind
UpdateCleanupSkipped(bs, publicId, destroyOk) == bs

\* the catch block: try { await deleteFromCloudinary(cloudinaryResult.public_id) }
\* catch (cleanupError) { log }
UpdateCleanup(bs, publicId, destroyOk) ==
    IF destroyOk THEN Destroy(bs, publicId) ELSE bs

\* the public id the clean-up after a successful save destroys
UpdateCleanupTarget(oldImagePublicId, cloudinaryResult) == oldImagePublicId

\* a mutant of the update: a missing tournament is answered as a server error
UpdateNotFoundAsError(req, id) ==
    AnswerTo(req, "update", id, 500, "Server error while updating tournament", <<>>)

\* if (!tournament) return res.status(404)...
UpdateNotFound(req, id) ==
    AnswerTo(req, "update", id, 404, "Tournament not found", <<>>)

Update(id, body, hasFile, uploadOk, saveOk, destroyOk) ==
    LET req == [body |-> body, hasFile |-> hasFile]
    IN
    /\ hasFile => nextSuffix <= MaxUploads
    /\ UNCHANGED <<now, aside>>
    /\ IF ~BodyValid(body)
       THEN /\ resp' = AnswerTo(req, "update", id, 400, "Validation failed", <<>>)
            /\ UNCHANGED <<tournaments, blobs, nextSuffix>>
       ELSE IF id \notin DOMAIN tournaments
       THEN /\ resp' = UpdateNotFound(req, id)
            /\ UNCHANGED <<tournaments, blobs, nextSuffix>>
       ELSE IF UploadFailed(hasFile, uploadOk)
       THEN /\ resp' = [AnswerTo(req, "update", id, 500,
                                 "Failed to upload poster to cloud storage", <<>>)
                          EXCEPT !.error = "upload"]
            /\ nextSuffix' = nextSuffix + 1
            /\ UNCHANGED <<tournaments, blobs>>
       ELSE LET stored == tournaments[id]
                cloudinaryResult == UploadResult("posters", PosterName(nextSuffix))
                uploaded == IF hasFile THEN cloudinaryResult.public_id ELSE <<>>
                oldImagePublicId ==
                    IF hasFile /\ stored.posterImage # <<>>
                    THEN ExtractPublicId(stored.posterImage) ELSE <<>>
                tournament ==
                    Stamp(stored,
                          Assign(stored, body,
                                 IF hasFile THEN cloudinaryResult.secure_url ELSE None))
                afterUpload == IF hasFile /\ uploadOk
                               THEN blobs \cup {uploaded} ELSE blobs
                info == [AnswerTo(req, "update", id, 0, "", <<>>)
                           EXCEPT !.uploaded = uploaded,
                                  !.old = IF hasFile THEN stored.posterImage ELSE <<>>,
                                  !.oldPublicId = oldImagePublicId]
            IN /\ nextSuffix' = IF hasFile THEN nextSuffix + 1 ELSE nextSuffix
               /\ IF saveOk /\ SchemaValid(tournament)
                  THEN /\ tournaments' = Put(id, tournament)
                       /\ blobs' =
                            IF oldImagePublicId # <<>> /\ hasFile /\ destroyOk
                            THEN Destroy(afterUpload,
                                         UpdateCleanupTarget(oldImagePublicId,
                                                             cloudinaryResult))
                            ELSE afterUpload
                       /\ resp' = [info EXCEPT
                                     !.status = 200,
                                     !.message = "Tournament updated successfully",
                                     !.data = <<Returned(id, tournament)>>,
                                     !.cleanup =
                                        IF oldImagePublicId = <<>> \/ ~hasFile
                                        THEN "none"
                                        ELSE IF destroyOk THEN "ok" ELSE "failed"]
                  ELSE /\ UNCHANGED tournaments
                       /\ blobs' = IF hasFile
                                   THEN UpdateCleanup(afterUpload, uploaded, destroyOk)
                                   ELSE afterUpload
                       \* with a file the catch block goes on to fs.unlinkSync,
                       \* fs is not defined in this module: the handler throws
                       \* before it answers
                       /\ resp' = [info EXCEPT
                                     !.error = SaveError(tournament),
                                     !.status = IF hasFile THEN 0 ELSE 500,
                                     !.message =
                                        IF hasFile THEN ""
                                        ELSE "Server error while updating tournament",
                                     !.cleanup =
                                        IF ~hasFile THEN "none"
                                        ELSE IF destroyOk THEN "ok" ELSE "failed"]

\* ------------------------------------- PATCH /api/tournaments/:id/participants
\* a mutant of the range check: a count one above the maximum passes
ExceedsMaxByTwo(currentParticipants, maxParticipants) ==
    currentParticipants > maxParticipants + 1

\* currentParticipants > tournament.maxParticipants
ExceedsMax(currentParticipants, maxParticipants) ==
    currentParticipants > maxParticipants

Participants(id, currentParticipants, saveOk) ==
    LET req == [currentParticipants |-> currentParticipants]
    IN
    /\ UNCHANGED <<blobs, nextSuffix, now, aside>>
    /\ IF currentParticipants < 0
       THEN /\ resp' = AnswerTo(req, "participants", id, 400,
                                "Current participants must be a non-negative number",
                                <<>>)
            /\ UNCHANGED tournaments
       ELSE IF id \notin DOMAIN tournaments
       THEN /\ resp' = AnswerTo(req, "participants", id, 404,
                                "Tournament not found", <<>>)
            /\ UNCHANGED tournaments
       ELSE IF ExceedsMax(currentParticipants, tournaments[id].maxParticipants)
       THEN /\ resp' = AnswerTo(req, "participants", id, 400,
                                "Current participants cannot exceed maximum participants",
                                <<>>)
            /\ UNCHANGED tournaments
       ELSE LET tournament ==
                    Stamp(tournaments[id],
                          [tournaments[id] EXCEPT
                             !.currentParticipants = currentParticipants])
            IN IF saveOk
               THEN /\ tournaments' = Put(id, tournament)
                    /\ resp' = AnswerTo(req, "participants", id, 200,
                                        "Participant count updated successfully",
                                        <<Returned(id, tournament)>>)
               ELSE /\ UNCHANGED tournaments
                    /\ resp' = [AnswerTo(req, "participants", id, 500,
                                         "Server error while updating participants",
                                         <<>>)
                                  EXCEPT !.error = "save"]

\* ----------------------------------------- PATCH /api/tournaments/:id/complete
\* finalParticipants || tournament.currentParticipants: undefined and 0 are falsy
OrCurrent(finalParticipants, currentParticipants) ==
    IF IsSome(finalParticipants) /\ Val(finalParticipants) # 0
    THEN Val(finalParticipants) ELSE currentParticipants

\* a mutant of the winner check: only !winner is tested
WinnerMissingNoTrim(winner) == winner = <<>>

\* !winner || !winner.trim()
WinnerMissing(winner) == winner = <<>> \/ Trim(winner) = <<>>

Complete(id, winner, finalParticipants, saveOk) ==
    LET req == [winner |-> winner, finalParticipants |-> finalParticipants]
    IN
    /\ UNCHANGED <<blobs, nextSuffix, now, aside>>
    /\ IF WinnerMissing(winner)
       THEN /\ resp' = AnswerTo(req, "complete", id, 400,
                                "Winner name is required", <<>>)
            /\ UNCHANGED tournaments
       ELSE IF id \notin DOMAIN tournaments
       THEN /\ resp' = AnswerTo(req, "complete", id, 404,
                                "Tournament not found", <<>>)
            /\ UNCHANGED tournaments
       ELSE LET tournament ==
                    Stamp(tournaments[id],
                          [tournaments[id] EXCEPT
                             !.status = "completed",
                             !.winner = Trim(winner),
                             !.finalParticipants =
                                Some(OrCurrent(finalParticipants,
                                               tournaments[id].currentParticipants))])
            IN IF saveOk
               THEN /\ tournaments' = Put(id, tournament)
                    /\ resp' = AnswerTo(req, "complete", id, 200,
                                        "Tournament marked as completed",
                                        <<Returned(id, tournament)>>)
               ELSE /\ UNCHANGED tournaments
                    /\ resp' = [AnswerTo(req, "complete", id, 500,
                                         "Server error while completing tournament",
                                         <<>>)
                                  EXCEPT !.error = "save"]

\* ------------------------------------ PATCH /api/tournaments/:id/toggle-status
\* a mutant of the toggle: the flag is cleared whatever it was
ToggledOff(doc) == [doc EXCEPT !.isActive = FALSE]

\* tournament.isActive = !tournament.isActive
Toggled(doc) == [doc EXCEPT !.isActive = ~@]

ToggleStatus(id, saveOk) ==
    /\ UNCHANGED <<blobs, nextSuffix, now, aside>>
    /\ IF id \notin DOMAIN tournaments
       THEN /\ resp' = Answer("toggle", id, 404, "Tournament not found", <<>>)
            /\ UNCHANGED tournaments
       ELSE LET tournament == Stamp(tournaments[id], Toggled(tournaments[id]))
            IN IF saveOk
               THEN /\ tournaments' = Put(id, tournament)
                    /\ resp' = AnswerTo([found |-> tournaments[id]],
                                        "toggle", id, 200, "toggled",
                                        <<Returned(id, tournament)>>)
               ELSE /\ UNCHANGED tournaments
                    /\ resp' = [Answer("toggle", id, 500,
                                       "Server error while updating tournament status",
                                       <<>>)
                                  EXCEPT !.error = "save"]

\* ---------------------------------------------------- methods.updateStatus
\* the document after updateStatus assigned this.status, before this.save()
UpdateStatus(doc, clock) == [doc EXCEPT !.status = ComputedStatus(clock, doc.date)]

\* a mutant of updateStatus: the recomputed status is not written
StatusSaveSkipped(old, doc) == old

\* return this.save(): the document the store holds once the save resolved
StatusSave(old, doc) == Stamp(old, doc)

\* -------------------------------------------------- GET /api/tournaments/:id
GetOne(id, saveOk) ==
    /\ UNCHANGED <<blobs, nextSuffix, now, aside>>
    /\ IF id \notin DOMAIN tournaments
       THEN /\ resp' = Answer("get", id, 404, "Tournament not found", <<>>)
            /\ UNCHANGED tournaments
       ELSE LET tournament == Stamp(tournaments[id], UpdateStatus(tournaments[id], now))
            IN IF saveOk
               THEN /\ tournaments' = Put(id, StatusSave(tournaments[id], tournament))
                    /\ resp' = Answer("get", id, 200, "", <<Returned(id, tournament)>>)
               ELSE /\ UNCHANGED tournaments
                    /\ resp' = [Answer("get", id, 500,
                                       "Server error while fetching tournament", <<>>)
                                  EXCEPT !.error = "save"]

\* ------------------------------------------------------ GET /api/tournaments
\* the filter of Tournament.find in the public list
PubliclyListed(doc, clock) ==
    /\ doc.isActive
    /\ doc.listUntil >= clock
    /\ doc.status \in {"upcoming", "ongoing"}

\* .sort({ date: 1 }): ids by ascending date, equal dates in id order
RECURSIVE SortByDateAsc(_)
SortByDateAsc(S) ==
    IF S = {} THEN <<>>
    ELSE LET first == CHOOSE i \in S : \A j \in S :
                          \/ tournaments[i].date < tournaments[j].date
                          \/ tournaments[i].date = tournaments[j].date /\ i <= j
         IN <<first>> \o SortByDateAsc(S \ {first})

\* failAt = k: the k-th updateStatus of the loop rejects (0, or k beyond the
\* list: none does)
ListPublic(failAt) ==
    /\ UNCHANGED <<blobs, nextSuffix, now, aside>>
    /\ LET found == SortByDateAsc({i \in DOMAIN tournaments :
                                      PubliclyListed(tournaments[i], now)})
           failed == failAt >= 1 /\ failAt <= Len(found)
           saved == IF failed THEN {found[k] : k \in 1..(failAt - 1)}
                    ELSE {found[k] : k \in 1..Len(found)}
       IN /\ tournaments' =
                [i \in DOMAIN tournaments |->
                    IF i \in saved
                    THEN StatusSave(tournaments[i], UpdateStatus(tournaments[i], now))
                    ELSE tournaments[i]]
          /\ resp' =
                IF failed
                THEN [Answer("list", 0, 500,
                             "Server error while fetching tournaments", <<>>)
                        EXCEPT !.error = "save"]
                ELSE Answer("list", 0, 200, "",
                            [k \in 1..Len(found) |->
                                Returned(found[k],
                                         Stamp(tournaments[found[k]],
                                               UpdateStatus(tournaments[found[k]], now)))])

\* ------------------------------------------------- GET /api/tournaments/past
\* the filter of Tournament.find in the past list
PastListed(doc) ==
    /\ doc.isActive
    /\ doc.status = "completed"
    /\ doc.winner # None

\* .sort({ date: -1 }): the orders of the ids of S by descending date; the
\* store may return equal dates in any order
SortsByDateDesc(S) ==
    {order \in [1..Cardinality(S) -> S] :
        /\ \A i \in S : \E k \in DOMAIN order : order[k] = i
        /\ \A k \in 1..(Cardinality(S) - 1) :
              tournaments[order[k]].date >= tournaments[order[k + 1]].date}

\* .limit(n): the first n documents; a limit of 0 is no limit
Limited(order, n) ==
    IF n = 0 THEN order ELSE SubSeq(order, 1, Min({n, Len(order)}))

\* limit: the query parameter, None when the request has none
ListPast(limit) ==
    /\ UNCHANGED <<tournaments, blobs, nextSuffix, now, aside>>
    /\ LET n == IF IsSome(limit) THEN Val(limit) ELSE PastLimitDefault
       IN \E order \in SortsByDateDesc({i \in DOMAIN tournaments :
                                           PastListed(tournaments[i])}) :
             resp' = AnswerTo([limit |-> n], "past", 0, 200, "",
                              [k \in DOMAIN Limited(order, n) |->
                                  Returned(Limited(order, n)[k],
                                           tournaments[Limited(order, n)[k]])])

\* ------------------------------------------------ GET /api/tournaments/admin
\* a mutant of the query: inactive is looked up in the status field
AdminQueryInactiveAsStatus(doc, status, category) ==
    /\ status # "all" =>
          IF status = "active" THEN doc.isActive
          ELSE doc.status = status
    /\ category # "all" => doc.category = category

\* the query the handler builds from status and category (no search term)
AdminQuery(doc, status, category) ==
    /\ status # "all" =>
          IF status = "active" THEN doc.isActive
          ELSE IF status = "inactive" THEN ~doc.isActive
          ELSE doc.status = status
    /\ category # "all" => doc.category = category

\* .limit(limit * 1).skip((page - 1) * limit) of a sorted result
Page(order, page, limit) ==
    SubSeq(order, (page - 1) * limit + 1, Min({page * limit, Len(order)}))

\* page, limit, status, category: the query parameters, None when absent
ListAdmin(page, limit, status, category) ==
    /\ UNCHANGED <<tournaments, blobs, nextSuffix, now, aside>>
    /\ LET p == IF IsSome(page) THEN Val(page) ELSE AdminPageDefault
           l == IF IsSome(limit) THEN Val(limit) ELSE AdminLimitDefault
           st == IF IsSome(status) THEN Val(status) ELSE "all"
           cat == IF IsSome(category) THEN Val(category) ELSE "all"
           found == {i \in DOMAIN tournaments :
                        AdminQuery(tournaments[i], st, cat)}
       IN \E order \in SortsByDateDesc(found) :
             LET shown == Page(order, p, l)
             IN resp' = [AnswerTo([status |-> st, category |-> cat,
                                   page |-> p, limit |-> l],
                                  "admin", 0, 200, "",
                                  [k \in DOMAIN shown |->
                                      Returned(shown[k], tournaments[shown[k]])])
                           EXCEPT !.total = Cardinality(found)]

\* --------------------------------------- the handlers between their awaits
\* the paths of doc the handler assigned a value other than the loaded one:
\* what save() sends as $set
Modified(loaded, doc) == {f \in DOMAIN doc : doc[f] # loaded[f]}

\* save() of a loaded document: $set of the modified paths, and of updatedAt
\* when there is one, on the stored document
SaveModified(id, loaded, doc) ==
    [i \in DOMAIN tournaments |->
        IF i # id THEN tournaments[i]
        ELSE [f \in DOMAIN tournaments[i] |->
                IF f \in Modified(loaded, doc) THEN doc[f]
                ELSE IF f = "updatedAt" /\ Modified(loaded, doc) # {} THEN now
                ELSE tournaments[i][f]]]

Idle(slot) == inflight[slot] = None
Local(slot) == inflight[slot][1]
Suspend(slot, locals) == [inflight EXCEPT ![slot] = Some(locals)]
Finish(slot) == [inflight EXCEPT ![slot] = None]

\* PATCH /:id/participants up to the await of findById
ParticipantsLoad(slot, id, currentParticipants) ==
    /\ Idle(slot)
    /\ currentParticipants >= 0
    /\ id \in DOMAIN tournaments
    /\ inflight' = Suspend(slot, [op |-> "participants", pc |-> "loaded", id |-> id,
                                  currentParticipants |-> currentParticipants,
                                  tournament |-> tournaments[id]])
    /\ UNCHANGED <<tournamentVars, now, resp, enrollments, students, files>>

\* PATCH /:id/participants from findById's result to the answer
ParticipantsSave(slot) ==
    /\ ~Idle(slot)
    /\ Local(slot).op = "participants"
    /\ LET l == Local(slot)
           req == [currentParticipants |-> l.currentParticipants]
       IN IF ExceedsMax(l.currentParticipants, l.tournament.maxParticipants)
          THEN /\ resp' = AnswerTo(req, "participants", l.id, 400,
                                   "Current participants cannot exceed maximum participants",
                                   <<>>)
               /\ UNCHANGED tournaments
          ELSE LET tournament ==
                       Stamp(l.tournament,
                             [l.tournament EXCEPT
                                !.currentParticipants = l.currentParticipants])
               IN /\ tournaments' = SaveModified(l.id, l.tournament, tournament)
                  /\ resp' = AnswerTo(req, "participants", l.id, 200,
                                      "Participant count updated successfully",
                                      <<Returned(l.id, tournament)>>)
    /\ inflight' = Finish(slot)
    /\ UNCHANGED <<blobs, nextSuffix, now, enrollments, students, files>>

\* PUT /:id up to the await of findById
UpdateLoad(slot, id, body, hasFile) ==
    /\ Idle(slot)
    /\ BodyValid(body)
    /\ id \in DOMAIN tournaments
    /\ inflight' = Suspend(slot, [op |-> "update", pc |-> "loaded", id |-> id,
                                  body |-> body, hasFile |-> hasFile,
                                  tournament |-> tournaments[id],
                                  cloudinaryResult |-> None])
    /\ UNCHANGED <<tournamentVars, now, resp, enrollments, students, files>>

\* PUT /:id with a file, from findById's result to the await of the upload
UpdateUpload(slot) ==
    /\ ~Idle(slot)
    /\ Local(slot).op = "update" /\ Local(slot).pc = "loaded" /\ Local(slot).hasFile
    /\ nextSuffix <= MaxUploads
    /\ LET cloudinaryResult == UploadResult("posters", PosterName(nextSuffix))
       IN /\ blobs' = blobs \cup {cloudinaryResult.public_id}
          /\ nextSuffix' = nextSuffix + 1
          /\ inflight' = Suspend(slot, [Local(slot) EXCEPT
                                          !.pc = "uploaded",
                                          !.cloudinaryResult = Some(cloudinaryResult)])
    /\ UNCHANGED <<tournaments, now, resp, enrollments, students, files>>

\* PUT /:id from the upload (or, without a file, from findById's result) to
\* the end of the handler: Object.assign, save, the clean-up of the old image
\* and the answer
UpdateSave(slot) ==
    /\ ~Idle(slot)
    /\ Local(slot).op = "update"
    /\ Local(slot).pc = IF Local(slot).hasFile THEN "uploaded" ELSE "loaded"
    /\ LET l == Local(slot)
           oldImagePublicId ==
               IF l.hasFile /\ l.tournament.posterImage # <<>>
               THEN ExtractPublicId(l.tournament.posterImage) ELSE <<>>
           tournament ==
               Stamp(l.tournament,
                     Assign(l.tournament, l.body,
                            IF l.hasFile THEN Val(l.cloudinaryResult).secure_url
                            ELSE None))
       IN /\ tournaments' = SaveModified(l.id, l.tournament, tournament)
          /\ blobs' = IF oldImagePublicId # <<>>
                      THEN Destroy(blobs,
                                   UpdateCleanupTarget(oldImagePublicId,
                                                       Val(l.cloudinaryResult)))
                      ELSE blobs
          /\ resp' = [AnswerTo([body |-> l.body, hasFile |-> l.hasFile],
                               "update", l.id, 200, "Tournament updated successfully",
                               <<Returned(l.id, tournament)>>)
                        EXCEPT !.uploaded = IF l.hasFile
                                            THEN Val(l.cloudinaryResult).public_id
                                            ELSE <<>>,
                               !.old = IF l.hasFile THEN l.tournament.posterImage
                                       ELSE <<>>,
                               !.oldPublicId = oldImagePublicId,
                               !.cleanup = IF oldImagePublicId = <<>> THEN "none"
                                           ELSE "ok"]
    /\ inflight' = Finish(slot)
    /\ UNCHANGED <<nextSuffix, now, enrollments, students, files>>

\* ------------------------------------------------------ POST /api/enrollments
\* String.prototype.toLowerCase on the letters the model uses
Lower(s) == [k \in DOMAIN s |-> IF s[k] = "A" THEN "a"
                                ELSE IF s[k] = "B" THEN "b" ELSE s[k]]

EnrollmentStatuses == {"pending", "contacted", "enrolled", "rejected"}

\* the filter of findOne: same email, created in the last 30 days, active
RecentActive(doc, email) ==
    /\ doc.email = Lower(email)
    /\ doc.createdAt >= now - EnrollWindowDays * TicksPerDay
    /\ doc.isActive

\* the document Enrollment.create stores: the schema's setters and defaults
NewEnrollment(email) ==
    [email |-> Lower(email), createdAt |-> now, updatedAt |-> now,
     isActive |-> TRUE, status |-> "pending", contacted |-> FALSE,
     contactedAt |-> None, notes |-> None]

\* POST / up to the await of findOne and, when it found one, to the answer
EnrollCheck(slot, email) ==
    /\ Idle(slot)
    /\ IF \E i \in DOMAIN enrollments : RecentActive(enrollments[i], email)
       THEN /\ resp' = AnswerTo([email |-> email], "enroll", 0, 400,
                                "An enrollment inquiry with this email already exists within the last 30 days",
                                <<>>)
            /\ UNCHANGED inflight
       ELSE /\ inflight' = Suspend(slot, [op |-> "enroll", pc |-> "checked",
                                          email |-> email])
            /\ UNCHANGED resp
    /\ UNCHANGED <<tournamentVars, now, enrollments, students, files>>

\* Enrollment.create
InsertEnrollment(id, email) ==
    [i \in DOMAIN enrollments \cup {id} |->
        IF i = id THEN NewEnrollment(email) ELSE enrollments[i]]

\* POST / from findOne's null to the answer
EnrollCreate(slot) ==
    /\ ~Idle(slot)
    /\ Local(slot).op = "enroll"
    /\ Ids \ DOMAIN enrollments # {}
    /\ LET id == Min(Ids \ DOMAIN enrollments)
       IN /\ enrollments' = InsertEnrollment(id, Local(slot).email)
          /\ resp' = AnswerTo([email |-> Local(slot).email], "enroll", id, 201,
                              "Enrollment inquiry submitted successfully! We will contact you soon.",
                              <<Returned(id, NewEnrollment(Local(slot).email))>>)
    /\ inflight' = Finish(slot)
    /\ UNCHANGED <<tournamentVars, now, students, files>>

\* findByIdAndUpdate(id, update, { new: true }) with timestamps: the stored
\* document after the update; updated is the document with the update applied
UpdatedEnrollment(id, updated) ==
    [enrollments EXCEPT ![id] = [updated EXCEPT !.updatedAt = now]]

\* notes: None when the body has none
SetStatus(doc, status, notes) ==
    [doc EXCEPT !.status = status,
                !.notes = IF notes # None THEN notes ELSE @]

\* ------------------------------------------- PATCH /api/enrollments/:id/status
EnrollmentStatus(id, status, notes) ==
    LET req == [status |-> status, notes |-> notes]
        updated == SetStatus(enrollments[id], status, notes)
    IN
    /\ UNCHANGED <<tournamentVars, now, inflight, students, files>>
    /\ IF status \notin EnrollmentStatuses
       THEN /\ resp' = AnswerTo(req, "enrollStatus", id, 400, "Invalid status value", <<>>)
            /\ UNCHANGED enrollments
       ELSE IF id \notin DOMAIN enrollments
       THEN /\ resp' = AnswerTo(req, "enrollStatus", id, 404,
                                "Enrollment inquiry not found", <<>>)
            /\ UNCHANGED enrollments
       ELSE /\ enrollments' = UpdatedEnrollment(id, updated)
            /\ resp' = IF enrollments'[id].isActive
                       THEN AnswerTo(req, "enrollStatus", id, 200,
                                     "Enrollment status updated successfully",
                                     <<Returned(id, enrollments'[id])>>)
                       ELSE AnswerTo(req, "enrollStatus", id, 404,
                                     "Enrollment inquiry not found", <<>>)

\* notes: None when the body has none or an empty one
SetContacted(doc, notes) ==
    [doc EXCEPT !.contacted = TRUE, !.contactedAt = Some(now),
                !.status = "contacted",
                !.notes = IF notes # None THEN notes ELSE @]

\* ------------------------------------------ PATCH /api/enrollments/:id/contact
EnrollmentContact(id, notes) ==
    LET req == [notes |-> notes]
        updated == SetContacted(enrollments[id], notes)
    IN
    /\ UNCHANGED <<tournamentVars, now, inflight, students, files>>
    /\ IF id \notin DOMAIN enrollments
       THEN /\ resp' = AnswerTo(req, "enrollContact", id, 404,
                                "Enrollment inquiry not found", <<>>)
            /\ UNCHANGED enrollments
       ELSE /\ enrollments' = UpdatedEnrollment(id, updated)
            /\ resp' = IF enrollments'[id].isActive
                       THEN AnswerTo(req, "enrollContact", id, 200,
                                     "Enrollment marked as contacted",
                                     <<Returned(id, enrollments'[id])>>)
                       ELSE AnswerTo(req, "enrollContact", id, 404,
                                     "Enrollment inquiry not found", <<>>)

SetInactive(doc) == [doc EXCEPT !.isActive = FALSE]

\* ------------------------------------------------ DELETE /api/enrollments/:id
EnrollmentDelete(id) ==
    /\ UNCHANGED <<tournamentVars, now, inflight, students, files>>
    /\ IF id \notin DOMAIN enrollments
       THEN /\ resp' = Answer("enrollDelete", id, 404,
                              "Enrollment inquiry not found", <<>>)
            /\ UNCHANGED enrollments
       ELSE /\ enrollments' = UpdatedEnrollment(id, SetInactive(enrollments[id]))
            /\ resp' = Answer("enrollDelete", id, 200,
                              "Enrollment inquiry deleted successfully", <<>>)

\* ------------------------------------------------------ the student routes
\* `/uploads/students/${req.file.filename}` of the k-th upload
UploadPath(k) == Some(k)
\* image.startsWith('/uploads/'): None is the schema's default emoji
IsUploadPath(image) == image # None
\* multer's diskStorage has written the uploaded file when the handler starts
Stored(disk, hasFile) == IF hasFile THEN Append(disk, TRUE) ELSE disk
\* fs.existsSync(p) then fs.unlinkSync(p)
Unlink(disk, k) == [disk EXCEPT ![k] = FALSE]

\* studentValidation on the modelled field: displayOrder optional, isInt min 0
StudentBodyValid(body) ==
    body.displayOrder = None \/ Val(body.displayOrder) >= 0

\* new Student(studentData) with the schema defaults of the modelled fields
NewStudent(body, image) ==
    [image |-> image,
     displayOrder |-> IF body.displayOrder = None THEN 0
                      ELSE Val(body.displayOrder),
     isActive |-> TRUE]

\* --------------------------------------------------------- POST /api/students
StudentCreate(body, hasFile, saveOk) ==
    LET k == Len(files) + 1
        onDisk == Stored(files, hasFile)
        id == Len(students) + 1
        req == [body |-> body, hasFile |-> hasFile]
    IN
    /\ UNCHANGED <<tournamentVars, now, inflight, enrollments>>
    /\ IF ~StudentBodyValid(body)
       THEN /\ resp' = AnswerTo(req, "studentCreate", 0, 400, "Validation failed", <<>>)
            /\ files' = onDisk
            /\ UNCHANGED students
       ELSE IF ~saveOk
       THEN /\ resp' = AnswerTo(req, "studentCreate", 0, 500,
                                "Server error while creating student", <<>>)
            /\ files' = IF hasFile THEN Unlink(onDisk, k) ELSE onDisk
            /\ UNCHANGED students
       ELSE /\ students' = Append(students,
                   NewStudent(body, IF hasFile THEN UploadPath(k) ELSE None))
            /\ files' = onDisk
            /\ resp' = AnswerTo(req, "studentCreate", id, 201,
                                "Student created successfully",
                                <<Returned(id, students'[id])>>)

\* findByIdAndUpdate(id, updateData): the paths of updateData are set
StudentAssign(doc, body, hasFile, k) ==
    [doc EXCEPT !.image = IF hasFile THEN UploadPath(k) ELSE @,
                !.displayOrder = IF body.displayOrder = None THEN @
                                 ELSE Val(body.displayOrder)]

\* the disk after the handler removed the image of the student it found
OldImageRemoved(disk, id) ==
    IF /\ id \in DOMAIN students
       /\ IsUploadPath(students[id].image)
       /\ disk[Val(students[id].image)]
    THEN Unlink(disk, Val(students[id].image))
    ELSE disk

\* ------------------------------------------------------ PUT /api/students/:id
StudentUpdate(id, body, hasFile, findOk, updateOk) ==
    LET k == Len(files) + 1
        onDisk == Stored(files, hasFile)
        afterOld == IF hasFile THEN OldImageRemoved(onDisk, id) ELSE onDisk
        req == [body |-> body, hasFile |-> hasFile]
    IN
    /\ UNCHANGED <<tournamentVars, now, inflight, enrollments>>
    /\ IF ~StudentBodyValid(body)
       THEN /\ resp' = AnswerTo(req, "studentUpdate", id, 400, "Validation failed", <<>>)
            /\ files' = onDisk
            /\ UNCHANGED students
       ELSE IF hasFile /\ ~findOk
       THEN /\ resp' = AnswerTo(req, "studentUpdate", id, 500,
                                "Server error while updating student", <<>>)
            /\ files' = Unlink(onDisk, k)
            /\ UNCHANGED students
       ELSE IF ~updateOk
       THEN /\ resp' = AnswerTo(req, "studentUpdate", id, 500,
                                "Server error while updating student", <<>>)
            /\ files' = IF hasFile THEN Unlink(afterOld, k) ELSE afterOld
            /\ UNCHANGED students
       ELSE IF id \notin DOMAIN students
       THEN /\ resp' = AnswerTo(req, "studentUpdate", id, 404, "Student not found", <<>>)
            /\ files' = afterOld
            /\ UNCHANGED students
       ELSE /\ students' = [students EXCEPT ![id] = StudentAssign(@, body, hasFile, k)]
            /\ files' = afterOld
            /\ resp' = AnswerTo(req, "studentUpdate", id, 200,
                                "Student updated successfully",
                                <<Returned(id, students'[id])>>)

\* the indexes of the list whose findByIdAndUpdate changes student id
Applied(studentIds, failed, id) ==
    {index \in DOMAIN studentIds \ failed : studentIds[index] = id}

\* -------------------------------------------------- PATCH /api/students/reorder
\* studentIds: None when the body's value is not an array; failed: the indexes
\* whose update rejects. Promise.all starts every update; the ones that do not
\* reject are applied, and of two on one student either may be the last.
StudentReorder(studentIds, failed) ==
    LET req == [studentIds |-> studentIds]
    IN
    /\ UNCHANGED <<tournamentVars, now, inflight, enrollments, files>>
    /\ IF studentIds = None
       THEN /\ resp' = AnswerTo(req, "studentReorder", 0, 400,
                                "Student IDs must be an array", <<>>)
            /\ UNCHANGED students
       ELSE /\ \E last \in [DOMAIN students -> {0} \cup DOMAIN Val(studentIds)] :
                /\ \A id \in DOMAIN students :
                      IF Applied(Val(studentIds), failed, id) = {}
                      THEN last[id] = 0
                      ELSE last[id] \in Applied(Val(studentIds), failed, id)
                /\ students' = [id \in DOMAIN students |->
                       IF last[id] = 0 THEN students[id]
                       ELSE [students[id] EXCEPT !.displayOrder = last[id] - 1]]
            /\ resp' = IF failed # {}
                       THEN AnswerTo(req, "studentReorder", 0, 500,
                                     "Server error while reordering students", <<>>)
                       ELSE AnswerTo(req, "studentReorder", 0, 200,
                                     "Students reordered successfully", <<>>)

\* ----------------------------------------------- DELETE /api/tournaments/:id
Delete(id, destroyOk, deleteOk) ==
    /\ UNCHANGED <<nextSuffix, now, aside>>
    /\ IF id \notin DOMAIN tournaments
       THEN /\ resp' = Answer("delete", id, 404, "Tournament not found", <<>>)
            /\ UNCHANGED <<tournaments, blobs>>
       ELSE LET tournament == tournaments[id]
                publicId == ExtractPublicId(tournament.posterImage)
                tried == tournament.posterImage # <<>> /\ publicId # <<>>
                info == [Answer("delete", id, 0, "", <<>>)
                           EXCEPT !.old = tournament.posterImage,
                                  !.oldPublicId = publicId,
                                  !.cleanup = IF ~tried THEN "none"
                                              ELSE IF destroyOk THEN "ok"
                                              ELSE "failed"]
            IN /\ blobs' = IF tried /\ destroyOk THEN Destroy(blobs, publicId)
                           ELSE blobs
               /\ IF deleteOk
                  THEN /\ tournaments' =
                            [i \in DOMAIN tournaments \ {id} |-> tournaments[i]]
                       /\ resp' = [info EXCEPT
                                     !.status = 200,
                                     !.message = "Tournament deleted successfully"]
                  ELSE /\ UNCHANGED tournaments
                       /\ resp' = [info EXCEPT
                                     !.status = 500,
                                     !.error = "delete",
                                     !.message =
                                        "Server error while deleting tournament"]

\* ------------------------------------------------------------------ clock
\* time passes between two requests; resp describes a request of this instant
Tick ==
    /\ now < MaxTime
    /\ now' = now + 1
    /\ resp' = NoResp
    /\ UNCHANGED <<tournaments, blobs, nextSuffix, aside>>

\* ------------------------------------------------------------- the inputs
OptionOf(S) == {None} \cup {Some(v) : v \in S}
\* the last instant of day one: the clock passes it
ListUntils == {2 * TicksPerDay - 1}
GoodLink == <<"https:", SLASH, SLASH, "chess">>
\* an absent link, a link without scheme, a link that matches
LinkInputs == {<<>>, <<"chess">>, GoodLink}
WinnerInputs == {<<>>, <<SP>>, <<"A">>, <<SP, "A", SP>>}

\* request bodies that vary the participant fields
CountBodies ==
    [date : {TicksPerDay}, listUntil : ListUntils,
     registrationLink : {GoodLink},
     category : {"Rapid"},
     maxParticipants : 0..MaxMax,
     currentParticipants : OptionOf(-1..MaxCount),
     status : {None}]

\* request bodies that vary the dates and the status
StatusBodies ==
    [date : DayOne, listUntil : ListUntils,
     registrationLink : {GoodLink},
     category : {"Rapid"},
     maxParticipants : {MaxMax},
     currentParticipants : {None},
     status : OptionOf({"upcoming", "cancelled"})]

\* the one request body of the image specification
ImageBodies ==
    [date : {TicksPerDay}, listUntil : ListUntils,
     registrationLink : {GoodLink},
     category : {"Rapid"},
     maxParticipants : {MaxMax},
     currentParticipants : {None},
     status : {None}]

Init ==
    /\ tournaments = <<>>
    /\ blobs = {}
    /\ nextSuffix = 1
    /\ now = 0
    /\ resp = NoResp
    /\ inflight = [slot \in Slots |-> None]
    /\ enrollments = <<>>
    /\ students = <<>>
    /\ files = <<>>

LifeRoom == Cardinality(DOMAIN tournaments) < NumLifeIds
LifeIds == 1..NumLifeIds

\* ------------------------------- participant counts under the mutations
CountCreate ==
    /\ LifeRoom
    /\ \E body \in CountBodies, saveOk \in BOOLEAN :
          Create(body, FALSE, TRUE, saveOk, TRUE)
CountUpdate ==
    \E id \in LifeIds, body \in CountBodies :
        Update(id, body, FALSE, TRUE, TRUE, TRUE)
CountParticipants ==
    \E id \in LifeIds, n \in -1..MaxCount, saveOk \in BOOLEAN :
        Participants(id, n, saveOk)
CountComplete ==
    \E id \in LifeIds, winner \in WinnerInputs : Complete(id, winner, None, TRUE)
CountToggle ==
    \E id \in LifeIds : ToggleStatus(id, TRUE)

NextCount ==
    \/ CountCreate
    \/ CountUpdate
    \/ CountParticipants
    \/ CountComplete
    \/ CountToggle

SpecCount == Init /\ [][NextCount]_vars

\* ------------------------------------------ status under reads and the clock
StatusCreate ==
    /\ LifeRoom
    /\ \E body \in StatusBodies : Create(body, FALSE, TRUE, TRUE, TRUE)
StatusUpdate ==
    \E id \in LifeIds, body \in StatusBodies :
        Update(id, body, FALSE, TRUE, TRUE, TRUE)
StatusComplete ==
    \E id \in LifeIds, winner \in WinnerInputs : Complete(id, winner, None, TRUE)
StatusToggle ==
    \E id \in LifeIds : ToggleStatus(id, TRUE)
StatusGet ==
    \E id \in LifeIds, saveOk \in BOOLEAN : GetOne(id, saveOk)
StatusList ==
    \E failAt \in 0..NumLifeIds : ListPublic(failAt)

NextStatus ==
    \/ StatusCreate
    \/ StatusUpdate
    \/ StatusComplete
    \/ StatusToggle
    \/ StatusGet
    \/ StatusList
    \/ Tick

SpecStatus == Init /\ [][NextStatus]_vars

\* ------------------------------------------- images and records under failure
ImageCreate ==
    \E body \in ImageBodies, hasFile, uploadOk, saveOk, destroyOk \in BOOLEAN :
        Create(body, hasFile, uploadOk, saveOk, destroyOk)
ImageUpdate ==
    \E id \in Ids, body \in ImageBodies,
       hasFile, uploadOk, saveOk, destroyOk \in BOOLEAN :
        Update(id, body, hasFile, uploadOk, saveOk, destroyOk)
ImageDelete ==
    \E id \in Ids, destroyOk, deleteOk \in BOOLEAN : Delete(id, destroyOk, deleteOk)

NextImage ==
    \/ ImageCreate
    \/ ImageUpdate
    \/ ImageDelete

SpecImage == Init /\ [][NextImage]_vars

\* ------------------------------------------ completion with a final count
\* request bodies that set the current participants at creation
CompleteBodies ==
    [date : {TicksPerDay}, listUntil : ListUntils,
     registrationLink : {GoodLink},
     category : {"Rapid"},
     maxParticipants : {MaxMax},
     currentParticipants : OptionOf(0..MaxCount),
     status : {None}]

CompleteCreate ==
    /\ LifeRoom
    /\ \E body \in CompleteBodies : Create(body, FALSE, TRUE, TRUE, TRUE)
CompleteParticipants ==
    \E id \in LifeIds, n \in 0..MaxCount : Participants(id, n, TRUE)
CompleteComplete ==
    \E id \in LifeIds, winner \in WinnerInputs,
       finalParticipants \in OptionOf(0..MaxCount), saveOk \in BOOLEAN :
        Complete(id, winner, finalParticipants, saveOk)

NextComplete ==
    \/ CompleteCreate
    \/ CompleteParticipants
    \/ CompleteComplete

SpecComplete == Init /\ [][NextComplete]_vars

\* --------------------------------------------- requests with invalid fields
\* request bodies that vary the validated fields
ValidateBodies ==
    [date : {TicksPerDay}, listUntil : ListUntils,
     registrationLink : LinkInputs,
     category : {"Rapid"},
     maxParticipants : {0, MaxMax},
     currentParticipants : {None},
     status : {None}]

ValidateCreate ==
    /\ LifeRoom
    /\ \E body \in ValidateBodies, hasFile, destroyOk \in BOOLEAN :
          Create(body, hasFile, TRUE, TRUE, destroyOk)
ValidateUpdate ==
    \E id \in LifeIds, body \in ValidateBodies, hasFile, destroyOk \in BOOLEAN :
        Update(id, body, hasFile, TRUE, TRUE, destroyOk)
ValidateParticipants ==
    \E id \in LifeIds, n \in -1..(MaxMax + 1) : Participants(id, n, TRUE)
ValidateComplete ==
    \E id \in LifeIds, winner \in WinnerInputs : Complete(id, winner, None, TRUE)

NextValidate ==
    \/ ValidateCreate
    \/ ValidateUpdate
    \/ ValidateParticipants
    \/ ValidateComplete

SpecValidate == Init /\ [][NextValidate]_vars

\* ------------------------------------------------ the past list and its limit
PastBodies ==
    [date : {0, TicksPerDay}, listUntil : ListUntils,
     registrationLink : {GoodLink},
     category : {"Rapid"},
     maxParticipants : {MaxMax},
     currentParticipants : {None},
     status : OptionOf({"completed"})]

PastCreate ==
    /\ Ids \ DOMAIN tournaments # {}
    /\ \E body \in PastBodies : Create(body, FALSE, TRUE, TRUE, TRUE)
PastComplete ==
    \E id \in Ids : Complete(id, <<"A">>, None, TRUE)
PastToggle ==
    \E id \in Ids : ToggleStatus(id, TRUE)
PastList ==
    \E limit \in OptionOf(0..MaxLimit) : ListPast(limit)

NextPast ==
    \/ PastCreate
    \/ PastComplete
    \/ PastToggle
    \/ PastList

SpecPast == Init /\ [][NextPast]_vars

\* ------------------------------------------------- the participant patch
PatchBodies ==
    [date : {TicksPerDay}, listUntil : ListUntils,
     registrationLink : {GoodLink},
     category : {"Rapid"},
     maxParticipants : 1..MaxMax,
     currentParticipants : OptionOf(0..MaxCount),
     status : {None}]

PatchCreate ==
    /\ LifeRoom
    /\ \E body \in PatchBodies : Create(body, FALSE, TRUE, TRUE, TRUE)
PatchUpdate ==
    \E id \in LifeIds, body \in PatchBodies :
        Update(id, body, FALSE, TRUE, TRUE, TRUE)
PatchComplete ==
    \E id \in LifeIds : Complete(id, <<"A">>, None, TRUE)
PatchParticipants ==
    \E id \in LifeIds, n \in -1..(MaxCount + 1), saveOk \in BOOLEAN :
        Participants(id, n, saveOk)

NextPatch ==
    \/ PatchCreate
    \/ PatchUpdate
    \/ PatchComplete
    \/ PatchParticipants

SpecPatch == Init /\ [][NextPatch]_vars

\* ------------------------------------------ completion at any clock and status
FinishCreate ==
    /\ LifeRoom
    /\ \E body \in StatusBodies : Create(body, FALSE, TRUE, TRUE, TRUE)
FinishComplete ==
    \E id \in LifeIds, winner \in WinnerInputs : Complete(id, winner, None, TRUE)
FinishGet ==
    \E id \in LifeIds : GetOne(id, TRUE)

NextFinish ==
    \/ FinishCreate
    \/ FinishComplete
    \/ FinishGet
    \/ Tick

SpecFinish == Init /\ [][NextFinish]_vars

\* --------------------------------------------------- the active flag toggle
ToggleCreate ==
    /\ LifeRoom
    /\ \E body \in StatusBodies : Create(body, FALSE, TRUE, TRUE, TRUE)
ToggleToggle ==
    \E id \in LifeIds, saveOk \in BOOLEAN : ToggleStatus(id, saveOk)

NextToggle ==
    \/ ToggleCreate
    \/ ToggleToggle
    \/ Tick

SpecToggle == Init /\ [][NextToggle]_vars

\* ------------------------------------------------ the reads and their writes
ReadCreate ==
    /\ LifeRoom
    /\ \E body \in StatusBodies : Create(body, FALSE, TRUE, TRUE, TRUE)
ReadGet ==
    \E id \in LifeIds, saveOk \in BOOLEAN : GetOne(id, saveOk)
ReadList ==
    \E failAt \in 0..NumLifeIds : ListPublic(failAt)

NextRead ==
    \/ ReadCreate
    \/ ReadGet
    \/ ReadList
    \/ Tick

SpecRead == Init /\ [][NextRead]_vars

\* ------------------------------------------- updates of ids that are absent
AbsentBodies ==
    [date : {TicksPerDay}, listUntil : ListUntils,
     registrationLink : {GoodLink},
     category : {"Rapid"},
     maxParticipants : {0, MaxMax},
     currentParticipants : {None},
     status : {None}]

AbsentCreate ==
    /\ LifeRoom
    /\ \E body \in AbsentBodies, hasFile \in BOOLEAN :
          Create(body, hasFile, TRUE, TRUE, TRUE)
AbsentUpdate ==
    \E id \in Ids, body \in AbsentBodies, hasFile, uploadOk \in BOOLEAN :
        Update(id, body, hasFile, uploadOk, TRUE, TRUE)
AbsentDelete ==
    \E id \in Ids : Delete(id, TRUE, TRUE)

NextAbsent ==
    \/ AbsentCreate
    \/ AbsentUpdate
    \/ AbsentDelete

SpecAbsent == Init /\ [][NextAbsent]_vars

\* ------------------------------------------------- the admin list's filters
AdminBodies ==
    [date : {TicksPerDay}, listUntil : ListUntils,
     registrationLink : {GoodLink},
     category : {"Rapid", "Blitz"},
     maxParticipants : {MaxMax},
     currentParticipants : {None},
     status : {None}]

\* an absent parameter is the default 'all'
AdminStatusInputs == OptionOf({"active", "inactive", "completed"})
AdminCategoryInputs == OptionOf({"Blitz"})

AdminCreate ==
    /\ Ids \ DOMAIN tournaments # {}
    /\ \E body \in AdminBodies : Create(body, FALSE, TRUE, TRUE, TRUE)
AdminComplete ==
    \E id \in Ids : Complete(id, <<"A">>, None, TRUE)
AdminToggle ==
    \E id \in Ids : ToggleStatus(id, TRUE)
\* the defaults, the first page of one and the second page of one
AdminPagings == {<<None, None>>, <<None, Some(1)>>, <<Some(2), Some(1)>>}

AdminList ==
    \E paging \in AdminPagings,
       status \in AdminStatusInputs, category \in AdminCategoryInputs :
        ListAdmin(paging[1], paging[2], status, category)

NextAdmin ==
    \/ AdminCreate
    \/ AdminComplete
    \/ AdminToggle
    \/ AdminList

SpecAdmin == Init /\ [][NextAdmin]_vars

\* ------------------------- a participant patch and an update, interleaved
\* bodies that carry both counts, the current one within the maximum
RaceBodies ==
    {body \in [date : {TicksPerDay}, listUntil : ListUntils,
               registrationLink : {GoodLink},
               category : {"Rapid"},
               maxParticipants : 1..MaxMax,
               currentParticipants : {Some(n) : n \in 0..MaxCount},
               status : {None}] :
        Val(body.currentParticipants) <= body.maxParticipants}

RaceCreate ==
    /\ LifeRoom
    /\ \A slot \in Slots : Idle(slot)
    /\ \E body \in RaceBodies : Create(body, FALSE, TRUE, TRUE, TRUE)
RaceParticipantsLoad ==
    \E slot \in Slots, id \in LifeIds, n \in 0..MaxCount :
        ParticipantsLoad(slot, id, n)
RaceParticipantsSave ==
    \E slot \in Slots : ParticipantsSave(slot)
RaceUpdateLoad ==
    \E slot \in Slots, id \in LifeIds, body \in RaceBodies :
        UpdateLoad(slot, id, body, FALSE)
RaceUpdateSave ==
    \E slot \in Slots : UpdateSave(slot)

NextRace ==
    \/ RaceCreate
    \/ RaceParticipantsLoad
    \/ RaceParticipantsSave
    \/ RaceUpdateLoad
    \/ RaceUpdateSave

SpecRace == Init /\ [][NextRace]_vars

\* ------------------------------- two updates with a new image, interleaved
PosterCreate ==
    /\ LifeRoom
    /\ \A slot \in Slots : Idle(slot)
    /\ \E body \in ImageBodies, hasFile \in BOOLEAN :
          Create(body, hasFile, TRUE, TRUE, TRUE)
PosterUpdateLoad ==
    \E slot \in Slots, id \in LifeIds, body \in ImageBodies :
        UpdateLoad(slot, id, body, TRUE)
PosterUpdateUpload ==
    \E slot \in Slots : UpdateUpload(slot)
PosterUpdateSave ==
    \E slot \in Slots : UpdateSave(slot)

NextPoster ==
    \/ PosterCreate
    \/ PosterUpdateLoad
    \/ PosterUpdateUpload
    \/ PosterUpdateSave

SpecPoster == Init /\ [][NextPoster]_vars

\* ------------------------------------------------------ enrollment inquiries
EmailInputs == {<<"a">>, <<"A">>, <<"b">>}
NotesInputs == OptionOf({"n"})

EnrollSubmitCheck ==
    \E slot \in Slots, email \in EmailInputs : EnrollCheck(slot, email)
EnrollSubmitCreate ==
    \E slot \in Slots : EnrollCreate(slot)
EnrollStatus ==
    \E id \in Ids, status \in {"enrolled", "bogus"}, notes \in NotesInputs :
        EnrollmentStatus(id, status, notes)
EnrollContact ==
    \E id \in Ids, notes \in NotesInputs : EnrollmentContact(id, notes)
EnrollDelete ==
    \E id \in Ids : EnrollmentDelete(id)

NextEnroll ==
    \/ EnrollSubmitCheck
    \/ EnrollSubmitCreate
    \/ EnrollDelete
    \/ Tick

SpecEnroll == Init /\ [][NextEnroll]_vars

\* ------------------------------------------- patches of enrollment inquiries
InquirySubmitCheck ==
    \E slot \in Slots : EnrollCheck(slot, <<"a">>)

NextInquiry ==
    \/ InquirySubmitCheck
    \/ EnrollSubmitCreate
    \/ EnrollStatus
    \/ EnrollContact
    \/ EnrollDelete

SpecInquiry == Init /\ [][NextInquiry]_vars

\* ------------------------------------------ the student records and their images
StudentIdInputs == 1..(MaxStudents + 1)
StudentBodies == [displayOrder : OptionOf({-1, 1})]

StudentPost ==
    /\ Len(students) < MaxStudents
    /\ \E body \in StudentBodies, hasFile \in BOOLEAN, saveOk \in BOOLEAN :
          /\ hasFile => Len(files) < MaxFiles
          /\ StudentCreate(body, hasFile, saveOk)

StudentPut ==
    \E id \in StudentIdInputs, body \in StudentBodies, hasFile \in BOOLEAN,
       findOk \in BOOLEAN, updateOk \in BOOLEAN :
          /\ hasFile => Len(files) < MaxFiles
          /\ StudentUpdate(id, body, hasFile, findOk, updateOk)

NextStudent ==
    \/ StudentPost
    \/ StudentPut

SpecStudent == Init /\ [][NextStudent]_vars

\* --------------------------------------------------- the order of the students
ReorderLists ==
    OptionOf(UNION {[1..n -> StudentIdInputs] : n \in 0..MaxStudents})

ReorderPost ==
    /\ Len(students) < MaxStudents
    /\ \E body \in [displayOrder : OptionOf({1})] :
          StudentCreate(body, FALSE, TRUE)

ReorderPatch ==
    \E studentIds \in ReorderLists :
        \E failed \in SUBSET (IF studentIds = None THEN {}
                              ELSE DOMAIN Val(studentIds)) :
            StudentReorder(studentIds, failed)

NextReorder ==
    \/ ReorderPost
    \/ ReorderPatch

SpecReorder == Init /\ [][NextReorder]_vars

\* the one returned document of a single-document answer
Doc1 == resp.data[1].doc
\* an image the blob store holds is behind the url
Resolvable(url) == \E pid \in blobs : SecureUrl(pid) = url

\* C1: every stored tournament has 0 <= currentParticipants <= maxParticipants
C1_ParticipantsWithinMax ==
    \A i \in DOMAIN tournaments :
        /\ 0 <= tournaments[i].currentParticipants
        /\ tournaments[i].currentParticipants <= tournaments[i].maxParticipants

\* C2: a read (get, public list) leaves a cancelled tournament cancelled,
\* whatever the clock
C2_CancelledSurvivesReads ==
    [][resp'.op \in {"get", "list"} =>
         \A i \in DOMAIN tournaments :
             tournaments[i].status = "cancelled" =>
                 /\ i \in DOMAIN tournaments'
                 /\ tournaments'[i].status = "cancelled"]_vars

\* C3: the status a get recomputes for a tournament of date D is upcoming one
\* day before D, ongoing on the calendar day of D, completed one day after D
C3_StatusByCalendarDay ==
    (resp.op = "get" /\ resp.status = 200) =>
        /\ resp.at = Doc1.date - TicksPerDay => Doc1.status = "upcoming"
        /\ DayOf(resp.at) = DayOf(Doc1.date) => Doc1.status = "ongoing"
        /\ resp.at = Doc1.date + TicksPerDay => Doc1.status = "completed"

\* C4: a stored tournament has a winner or a final participant count only
\* when its status is completed
C4_ResultOnlyWhenCompleted ==
    \A i \in DOMAIN tournaments :
        (tournaments[i].winner # None \/ tournaments[i].finalParticipants # None)
            => tournaments[i].status = "completed"

\* C5: the public list returns no inactive tournament, none whose listUntil
\* is before the clock and none whose returned status is completed or cancelled
C5_PublicListOnlyListed ==
    (resp.op = "list" /\ resp.status = 200) =>
        \A k \in 1..Len(resp.data) :
            /\ resp.data[k].doc.isActive
            /\ resp.data[k].doc.listUntil >= resp.at
            /\ resp.data[k].doc.status \notin {"completed", "cancelled"}

UpdateSaveFailedAfterUpload ==
    resp.op = "update" /\ resp.error = "save" /\ resp.uploaded # <<>>

\* C6: when the record write of an update fails after the new image was
\* uploaded, the old image is still in the blob store, no stored record
\* references the new image, and the new image was deleted unless the
\* clean-up call itself failed
C6_FailedUpdateKeepsOldImage ==
    UpdateSaveFailedAfterUpload =>
        /\ resp.old # <<>> => Resolvable(resp.old)
        /\ \A i \in DOMAIN tournaments :
              tournaments[i].posterImage # SecureUrl(resp.uploaded)
        /\ resp.cleanup \in {"ok", "failed"}
        /\ resp.cleanup = "ok" => resp.uploaded \notin blobs

C6_Witness ==
    /\ UpdateSaveFailedAfterUpload
    /\ resp.old # <<>>
    /\ resp.cleanup = "ok"
    /\ resp.id \in DOMAIN tournaments
    /\ tournaments[resp.id].posterImage = resp.old

\* C7: when persistence fails during an update that carries an image, the
\* caller receives the error answer of that failure
C7_FailedUpdateAnswersError ==
    UpdateSaveFailedAfterUpload =>
        /\ resp.status = 500
        /\ resp.message = "Server error while updating tournament"

CreateSaveFailedAfterUpload(r) ==
    r.op = "create" /\ r.error = "save" /\ r.uploaded # <<>>

\* C8 as stated: when the record write of a create fails after the upload, the
\* uploaded image is no longer in the blob store, no record was stored and the
\* caller receives the persistence error
C8_FailedCreateRemovesImage ==
    [][CreateSaveFailedAfterUpload(resp') =>
         /\ resp'.uploaded \notin blobs'
         /\ tournaments' = tournaments
         /\ resp'.status = 500
         /\ resp'.message = "Server error while creating tournament"]_vars

\* C8 amended: when the record write of a create fails after the upload, the
\* uploaded image is no longer in the blob store unless the clean-up call
\* itself failed, no record was stored and the caller receives the persistence
\* error, also when the clean-up failed
C8_FailedCreateCleansUpBestEffort ==
    [][CreateSaveFailedAfterUpload(resp') =>
         /\ resp'.cleanup \in {"ok", "failed"}
         /\ resp'.cleanup = "ok" => resp'.uploaded \notin blobs'
         /\ tournaments' = tournaments
         /\ resp'.status = 500
         /\ resp'.message = "Server error while creating tournament"]_vars

C8_Witness ==
    /\ CreateSaveFailedAfterUpload(resp)
    /\ resp.cleanup = "ok"
    /\ resp.uploaded \notin blobs

C10_ReplacedImageIsGone ==
    (/\ resp.op = "update" /\ resp.status = 200
     /\ resp.uploaded # <<>> /\ resp.old # <<>>
     /\ resp.cleanup # "failed") =>
        /\ ~Resolvable(resp.old)
        /\ tournaments[resp.id].posterImage = SecureUrl(resp.uploaded)

\* C11: after a delete answered with success, whose blob delete call did not
\* fail, the tournament is not found any more and the image it referenced is
\* no longer in the blob store
C11_DeleteRemovesRecordAndImage ==
    (resp.op = "delete" /\ resp.status = 200 /\ resp.cleanup # "failed") =>
        /\ resp.id \notin DOMAIN tournaments
        /\ resp.old # <<>> => ~Resolvable(resp.old)

\* the other fields of two documents agree
SameBut(fields, d, e) ==
    \A f \in DOMAIN d \ fields : d[f] = e[f]

\* C12: a participant-count patch on a stored tournament is answered with a
\* validation error and leaves the store unchanged when the count is negative
\* or above maxParticipants; otherwise, the write succeeding, the stored
\* currentParticipants is the count and nothing else changed
C12_ParticipantPatchRange ==
    [][(resp'.op = "participants" /\ resp'.id \in DOMAIN tournaments) =>
         LET n == resp'.req[1].currentParticipants
             t == tournaments[resp'.id]
         IN IF n < 0 \/ n > t.maxParticipants
            THEN resp'.status = 400 /\ tournaments' = tournaments
            ELSE \/ /\ resp'.status = 200
                    /\ DOMAIN tournaments' = DOMAIN tournaments
                    /\ tournaments'[resp'.id].currentParticipants = n
                    /\ SameBut({"currentParticipants", "updatedAt"}, t, tournaments'[resp'.id])
                    /\ \A i \in DOMAIN tournaments \ {resp'.id} :
                          tournaments'[i] = tournaments[i]
                 \/ /\ resp'.error = "save" /\ resp'.status = 500
                    /\ tournaments' = tournaments]_vars

C12_Witness ==
    /\ resp.op = "participants" /\ resp.status = 400
    /\ resp.id \in DOMAIN tournaments
    /\ Req.currentParticipants > tournaments[resp.id].maxParticipants
    /\ tournaments[resp.id].currentParticipants > 0

\* C13: a successful complete stores the supplied finalParticipants whenever
\* one is supplied, 0 included, and currentParticipants only when none is
C13_FinalParticipantsAsSupplied ==
    [][(resp'.op = "complete" /\ resp'.status = 200) =>
         LET supplied == resp'.req[1].finalParticipants
             stored == tournaments'[resp'.id].finalParticipants
         IN IF supplied # None THEN stored = supplied
            ELSE stored = Some(tournaments[resp'.id].currentParticipants)]_vars

Blank(s) == \A k \in 1..Len(s) : s[k] = SP
\* t is s without its leading and trailing white space
IsTrimOf(t, s) ==
    /\ t # <<>> /\ t[1] # SP /\ t[Len(t)] # SP
    /\ \E a \in 1..Len(s) :
          /\ a + Len(t) - 1 <= Len(s)
          /\ SubSeq(s, a, a + Len(t) - 1) = t
          /\ Blank(SubSeq(s, 1, a - 1))
          /\ Blank(SubSeq(s, a + Len(t), Len(s)))

\* C14: a complete with a non-blank winner on a stored tournament, the write
\* succeeding, sets status to completed and winner to the trimmed name,
\* whatever the clock and the prior status
C14_CompleteIgnoresCalendar ==
    [][(/\ resp'.op = "complete" /\ resp'.id \in DOMAIN tournaments
        /\ ~Blank(resp'.req[1].winner) /\ resp'.error = "none") =>
         /\ resp'.status = 200
         /\ tournaments'[resp'.id].status = "completed"
         /\ IsTrimOf(tournaments'[resp'.id].winner, resp'.req[1].winner)]_vars

C14_Witness ==
    /\ resp.op = "complete" /\ resp.status = 200
    /\ Req.winner = <<SP, "A", SP>>
    /\ resp.at < tournaments[resp.id].date
    /\ tournaments[resp.id].status = "completed"

\* C15: a complete with an empty or blank winner is answered with a
\* validation error and leaves the stored tournaments unchanged
C15_BlankWinnerRejected ==
    [][(resp'.op = "complete" /\ Blank(resp'.req[1].winner)) =>
         /\ resp'.status = 400
         /\ tournaments' = tournaments]_vars

C15_Witness ==
    /\ resp.op = "complete" /\ resp.status = 400
    /\ Req.winner = <<SP>>
    /\ resp.id \in DOMAIN tournaments
    /\ tournaments[resp.id].status = "upcoming"
    /\ tournaments[resp.id].winner = None

\* the request was refused for a field value: by the route's checks (400) or
\* by a schema validator at save()
EndedInValidationError(r) ==
    /\ r.op \in {"create", "update", "participants", "complete"}
    /\ r.status = 400 \/ r.error = "validation"

\* C16: an operation that ends in a validation error has uploaded no blob,
\* deleted no blob and written no record
C16_ValidationBeforeSideEffects ==
    [][EndedInValidationError(resp') =>
         /\ resp'.uploaded = <<>> /\ nextSuffix' = nextSuffix
         /\ resp'.cleanup = "none"
         /\ blobs' = blobs
         /\ tournaments' = tournaments]_vars

\* C17: a read whose save of the recomputed status fails still answers with
\* its result, and the store is as it was
C17_ReadSurvivesFailedSave ==
    [][(resp'.op \in {"get", "list"} /\ resp'.error = "save") =>
         /\ resp'.status = 200
         /\ tournaments' = tournaments]_vars

\* a toggle answered with success
ToggleDone(r) == r.op = "toggle" /\ r.status = 200

\* C18 as stated: a successful toggle flips isActive and changes no other
\* field of the stored tournament, and the second of two toggles in sequence
\* stores the record the first one found
C18_ToggleChangesOnlyActive ==
    [][ToggleDone(resp') =>
         LET before == tournaments[resp'.id]
             after == tournaments'[resp'.id]
         IN /\ after.isActive = ~before.isActive
            /\ SameBut({"isActive"}, before, after)
            /\ (ToggleDone(resp) /\ resp.id = resp'.id) => after = Req.found]_vars

\* C18 amended: a successful toggle flips isActive and changes no other field
\* of the stored tournament than updatedAt, no other tournament changes, and
\* the second of two toggles in sequence stores the record the first one
\* found, updatedAt apart
C18_ToggleChangesActiveAndStamp ==
    [][ToggleDone(resp') =>
         LET before == tournaments[resp'.id]
             after == tournaments'[resp'.id]
         IN /\ after.isActive = ~before.isActive
            /\ SameBut({"isActive", "updatedAt"}, before, after)
            /\ after.updatedAt = now
            /\ DOMAIN tournaments' = DOMAIN tournaments
            /\ \A i \in DOMAIN tournaments \ {resp'.id} :
                  tournaments'[i] = tournaments[i]
            /\ (ToggleDone(resp) /\ resp.id = resp'.id) =>
                  SameBut({"updatedAt"}, Req.found, after)]_vars

\* a toggle back to active, after the clock moved past the record's stamp
C18_Witness ==
    /\ ToggleDone(resp)
    /\ ~Req.found.isActive
    /\ tournaments[resp.id].isActive
    /\ tournaments[resp.id].updatedAt > Req.found.updatedAt

\* C20: every tournament a successful read returns has, in the store, the
\* status the read returned
C20_ReturnedStatusIsStored ==
    (resp.op \in {"get", "list"} /\ resp.status = 200) =>
        \A k \in 1..Len(resp.data) :
            /\ resp.data[k].id \in DOMAIN tournaments
            /\ tournaments[resp.data[k].id].status = resp.data[k].doc.status

\* a read returned ongoing, which only the recomputation stores or returns
C20_Witness ==
    /\ resp.op \in {"get", "list"} /\ resp.status = 200
    /\ Len(resp.data) >= 1
    /\ resp.data[1].doc.status = "ongoing"
    /\ tournaments[resp.data[1].id].status = "ongoing"

\* C19: the past list returns at most limit items, each of them active,
\* completed and with a winner in the store, in descending order of date
C19_PastListLimited ==
    resp.op = "past" =>
        /\ Len(resp.data) <= Req.limit
        /\ \A k \in 1..Len(resp.data) :
              /\ resp.data[k].id \in DOMAIN tournaments
              /\ PastListed(tournaments[resp.data[k].id])
        /\ \A k \in 1..(Len(resp.data) - 1) :
              resp.data[k].doc.date >= resp.data[k + 1].doc.date

\* a create or update answered with success
WriteDone(r) == r.op \in {"create", "update"} /\ r.status \in {200, 201}

\* C21: a create or update whose image upload fails answers 500 and leaves the
\* records and the blobs as they were, and the image of a record a create or
\* update returns is the one this request uploaded, present in the blob store,
\* or the one the record had before
C21_NoRecordOfFailedUpload ==
    [][/\ (resp'.op \in {"create", "update"} /\ resp'.error = "upload") =>
             /\ resp'.status = 500
             /\ resp'.data = <<>>
             /\ tournaments' = tournaments
             /\ blobs' = blobs
       /\ (WriteDone(resp') /\ resp'.data[1].doc.posterImage # None) =>
             \/ /\ resp'.uploaded # <<>>
                /\ resp'.uploaded \in blobs'
                /\ resp'.data[1].doc.posterImage = SecureUrl(resp'.uploaded)
             \/ /\ resp'.uploaded = <<>>
                /\ resp'.op = "update"
                /\ resp'.data[1].doc.posterImage = tournaments[resp'.id].posterImage
      ]_vars

\* the upload of a replacement image failed on a tournament that has an image
C21_Witness ==
    /\ resp.op = "update" /\ resp.error = "upload" /\ resp.status = 500
    /\ resp.id \in DOMAIN tournaments
    /\ tournaments[resp.id].posterImage # None

\* C22: an update of an id that has no stored tournament is answered 404 (400
\* when the body fails the field rules, which are checked first), uploads
\* nothing and leaves the blob store and the record store as they were
C22_UpdateOfMissingIdChangesNothing ==
    [][(resp'.op = "update" /\ resp'.id \notin DOMAIN tournaments) =>
         /\ resp'.status = IF BodyValid(resp'.req[1].body) THEN 404 ELSE 400
         /\ resp'.uploaded = <<>>
         /\ nextSuffix' = nextSuffix
         /\ blobs' = blobs
         /\ tournaments' = tournaments]_vars

\* an update with a file and a valid body on a missing id, other records and
\* blobs being there
C22_Witness ==
    /\ resp.op = "update" /\ resp.status = 404
    /\ Req.hasFile /\ BodyValid(Req.body)
    /\ resp.id \notin DOMAIN tournaments
    /\ tournaments # <<>> /\ blobs # {}

\* the stored tournaments the admin list's status and category parameters select
AdminSelected(status, category) ==
    {i \in DOMAIN tournaments :
        /\ CASE status = "all" -> TRUE
             [] status = "active" -> tournaments[i].isActive = TRUE
             [] status = "inactive" -> tournaments[i].isActive = FALSE
             [] OTHER -> tournaments[i].status = status
        /\ \/ category = "all"
           \/ tournaments[i].category = category}

\* C23: the admin list counts and returns the tournaments selected by: no
\* status filter for all, isActive for active and inactive, the status field
\* for any other value; no category filter for all, the exact category
\* otherwise
C23_AdminFilters ==
    resp.op = "admin" =>
        LET selected == AdminSelected(Req.status, Req.category)
            skipped == (Req.page - 1) * Req.limit
        IN /\ resp.status = 200
           /\ resp.total = Cardinality(selected)
           /\ \A k \in 1..Len(resp.data) : resp.data[k].id \in selected
           /\ \A k, m \in 1..Len(resp.data) :
                 resp.data[k].id = resp.data[m].id => k = m
           /\ Len(resp.data) =
                 Min({Req.limit, Max({0, Cardinality(selected) - skipped})})

\* the list asked for inactive tournaments found one and left an active one out
C23_Witness ==
    /\ resp.op = "admin" /\ Req.status = "inactive" /\ Req.category = "all"
    /\ resp.total = 1 /\ Len(resp.data) = 1
    /\ \E i \in DOMAIN tournaments : tournaments[i].isActive

\* C24: a read (get, public list) leaves completed the stored status of every
\* tournament that was completed with a winner
C24_CompletedSurvivesReads ==
    [][resp'.op \in {"get", "list"} =>
         \A i \in DOMAIN tournaments :
            (tournaments[i].status = "completed" /\ tournaments[i].winner # None) =>
               /\ i \in DOMAIN tournaments'
               /\ tournaments'[i].status = "completed"]_vars

\* no request is in flight
Quiet == \A slot \in Slots : Idle(slot)

\* C25: when a participant patch and an update of maxParticipants on the same
\* tournament have both finished, currentParticipants <= maxParticipants
C25_RaceKeepsCountWithinMax ==
    Quiet =>
        \A i \in DOMAIN tournaments :
            tournaments[i].currentParticipants <= tournaments[i].maxParticipants

\* C26: when the updates with a new image have all finished, every stored
\* record's image is in the blob store and every image in the blob store is
\* the image of a stored record
C26_RaceLeavesNoOrphan ==
    Quiet =>
        /\ \A i \in DOMAIN tournaments :
              tournaments[i].posterImage # None =>
                 Resolvable(tournaments[i].posterImage)
        /\ \A pid \in blobs :
              \E i \in DOMAIN tournaments :
                 tournaments[i].posterImage = SecureUrl(pid)

\* C27: no two active enrollment inquiries with the same email were created
\* less than 30 days apart
C27_OneActiveInquiryPerEmail ==
    \A i, j \in DOMAIN enrollments :
        (/\ i # j
         /\ enrollments[i].email = enrollments[j].email
         /\ enrollments[i].isActive /\ enrollments[j].isActive
         /\ enrollments[i].createdAt <= enrollments[j].createdAt) =>
            enrollments[j].createdAt - enrollments[i].createdAt
               >= EnrollWindowDays * TicksPerDay

\* C28: a status update with a valid status, or a mark-as-contacted, on a
\* soft-deleted inquiry is answered 404 and leaves the stored inquiries as
\* they were
C28_SoftDeletedIsUntouched ==
    [][(/\ resp'.op \in {"enrollStatus", "enrollContact"}
        /\ resp'.op = "enrollStatus" => resp'.req[1].status \in EnrollmentStatuses
        /\ resp'.id \in DOMAIN enrollments
        /\ ~enrollments[resp'.id].isActive) =>
          /\ resp'.status = 404
          /\ enrollments' = enrollments]_vars

\* the file a stored image path names is on the disk
ImageOnDisk(doc, disk) == IsUploadPath(doc.image) => disk[Val(doc.image)]

\* C29: after a student update, whatever its outcome, no stored student's
\* image names a file that has been deleted, and an update that did not succeed
\* removed no student's image file
C29_NoDanglingImage ==
    [][resp'.op = "studentUpdate" =>
         /\ \A id \in DOMAIN students' : ImageOnDisk(students'[id], files')
         /\ resp'.status # 200 =>
               \A id \in DOMAIN students :
                   ImageOnDisk(students[id], files) =>
                       ImageOnDisk(students[id], files')]_vars

Distinct(list) == \A i, j \in DOMAIN list : i # j => list[i] # list[j]

\* C30: a reorder with a list of distinct existing ids that succeeds sets the
\* displayOrder of the student at index i (from 0) to i and leaves the students
\* not in the list unchanged; one in which an update fails changes no
\* student's displayOrder
C30_ReorderAllOrNothing ==
    [][(/\ resp'.op = "studentReorder"
        /\ resp'.req[1].studentIds # None
        /\ Distinct(Val(resp'.req[1].studentIds))
        /\ \A i \in DOMAIN Val(resp'.req[1].studentIds) :
              Val(resp'.req[1].studentIds)[i] \in DOMAIN students) =>
          LET list == Val(resp'.req[1].studentIds)
          IN  IF resp'.status = 200
              THEN /\ \A i \in DOMAIN list :
                         students'[list[i]].displayOrder = i - 1
                   /\ \A id \in DOMAIN students :
                         (\A i \in DOMAIN list : list[i] # id) =>
                             students'[id] = students[id]
              ELSE \A id \in DOMAIN students :
                       students'[id].displayOrder = students[id].displayOrder]_vars

====
